---- MODULE Spec2Model ----
(***************************************************************************)
(* claude-code-spawn: one runCommand invocation (index.js) together with   *)
(* the Logger it drives (logger.js), as a state machine over the events of *)
(* the Node event loop: the promise executor, the timeout timer, the       *)
(* stdout/stderr 'data' events, the 'error' and 'exit' events of the child *)
(* process and the completions of the log writes. Further specifications   *)
(* cover the session ids of several invocations (SessionSpec), the readers *)
(* of the log directory, getRecentSessions and viewLog (ReadSpec), and the *)
(* wrappers runClaude and runClaudeTask (ApiSpec).                         *)
(***************************************************************************)
EXTENDS Integers, Sequences, FiniteSets

VARIABLES
  command,       \* runCommand's first parameter
  options,       \* the destructured options of runCommand
  processEnv,    \* process.env of the host process
  pc,            \* position of the promise executor
  cleanEnv,      \* const cleanEnv
  logger,        \* the Logger instance of the invocation
  logLines,      \* the lines of the session log file, in file order, each
                 \* with the position of its writeLog call
  childProcess,  \* the ChildProcess returned by spawn, and the child behind it
  pipes,         \* chunks written by the child and not yet delivered as 'data'
  stdout,        \* let stdout
  stderr,        \* let stderr
  timedOut,      \* let timedOut
  timeoutId,     \* let timeoutId: the state of the timer
  errorPc,       \* position of the 'error' handler
  exitPc,        \* position of the 'exit' handler
  promise,       \* the promise runCommand returns
  now,           \* Date.now() of the host
  loggers,       \* the Logger instances of the invocations in flight on the
                 \* host (SessionSpec)
  logRoot,       \* the log directory on disk: its session files (ReadSpec)
  answer,        \* the outcome of the last getRecentSessions/viewLog call
  api,           \* the call of runClaude/runClaudeTask made by the caller
  invocation,    \* args and cwd handed to runCommand
  console        \* what was written to the console of the host process,
                 \* in order

\* What an invocation of runCommand leaves alone: the clock, the other
\* invocations, the stored sessions and the caller's call.
aux == <<now, loggers, logRoot, answer, api, invocation>>

vars == <<command, options, processEnv, pc, cleanEnv, logger, logLines,
          childProcess, pipes, stdout, stderr, timedOut, timeoutId,
          errorPc, exitPc, promise, now, loggers, logRoot, answer, api,
          invocation, console>>

\* ------------------------------------------------------------- bounds
\* The child makes at most MaxWrites writes to its stdout and stderr.
MaxWrites == 2

\* ------------------------------------------------------------- values
\* A JavaScript value that may be null or undefined: None, or Some(v).
None == <<>>
Some(v) == <<v>>

\* process.pid of a child that was spawned.
ChildPid == 4242

\* The options.timeout values tried: null (the default) and a number of ms.
Timeouts == {None, Some(50)}

\* Exit codes a child may exit with by itself.
ExitCodes == {0, 1, 3}

\* Commands tried: two executables on the PATH, the managed CLI tool among
\* them, one that does not exist, and the empty string.
Commands == {"echo", "claude", "nonexistentcommand123", ""}
Installed == {"echo", "claude"}

\* Environment variable names and values; environments are functions from
\* a set of names to values.
Marker == "CLAUDECODE"
EnvNames == {Marker, "PATH"}
EnvValues == {"", "1"}
Envs == UNION {[d -> EnvValues] : d \in SUBSET EnvNames}

\* The bytes the child writes: "a" and "e" are ASCII, "L" "C" are the lead
\* and the continuation byte of one two-byte UTF-8 character.
OutByte(i) == IF i % 3 = 1 THEN "L" ELSE IF i % 3 = 2 THEN "C" ELSE "a"
OutBytes(from, to) == [i \in 1..(to - from + 1) |-> OutByte(from + i - 1)]
ErrBytes(from, to) == [i \in 1..(to - from + 1) |-> "e"]

\* ------------------------------------------------------------- helpers
\* if (timeout): null, undefined and 0 arm no timer.
Truthy(t) == t # None /\ t[1] # 0

\* Buffer.prototype.toString(): UTF-8 decoding of one chunk on its own. A
\* complete two-byte sequence gives the character "E"; a lead byte with no
\* continuation in the chunk, or a continuation byte with no lead, gives
\* the replacement character "?".
RECURSIVE ToString(_)
ToString(data) ==
  IF data = <<>> THEN <<>>
  ELSE IF data[1] = "L"
       THEN IF Len(data) >= 2 /\ data[2] = "C"
            THEN <<"E">> \o ToString(SubSeq(data, 3, Len(data)))
            ELSE <<"?">> \o ToString(Tail(data))
       ELSE IF data[1] = "C"
            THEN <<"?">> \o ToString(Tail(data))
            ELSE <<data[1]>> \o ToString(Tail(data))

\* CleanEnv without the delete.
CleanEnvKeepsMarker(env) == env

\* const cleanEnv = { ...env }; delete cleanEnv.CLAUDECODE;
CleanEnv(env) == [k \in (DOMAIN env) \ {Marker} |-> env[k]]

\* The delete applied to env itself, as without the copy.
SourceEnvDeletedFrom(env) == [k \in (DOMAIN env) \ {Marker} |-> env[k]]

\* The object env (process.env or the caller's options.env) after
\* `const cleanEnv = { ...env }; delete cleanEnv.CLAUDECODE`: the spread
\* makes a new object and the delete acts on that one.
SourceEnvAfterClean(env) == env

\* env = process.env unless the caller supplies options.env.
EffectiveEnv == IF options.env = None THEN processEnv ELSE options.env[1]

\* new Promise(...): pending until the first call of resolve or reject;
\* later calls change nothing. calls counts every call made, by records
\* the event whose call settled the promise.
NewPromise == [state |-> "pending", value |-> None, by |-> "nobody", calls |-> 0]

Settle(p, how, v, event) ==
  IF p.state = "pending"
  THEN [state |-> how, value |-> Some(v), by |-> event, calls |-> p.calls + 1]
  ELSE [p EXCEPT !.calls = @ + 1]

Resolve(p, v, event) == Settle(p, "resolved", v, event)
Reject(p, e, event) == Settle(p, "rejected", e, event)

\* new Error(`Command timed out after ${timeout}ms`)
TimeoutError(t) ==
  [name |-> "timeout", message |-> <<"Command timed out after ", t[1], "ms">>]

\* CommandFailureError with stdout || stderr.
CommandFailureErrorStdoutFirst(code, out, err) ==
  [name |-> "failure",
   message |-> <<"Command failed with code ", code, ": ",
                 IF out # <<>> THEN out ELSE err>>]

\* new Error(`Command failed with code ${code}: ${stderr || stdout}`)
CommandFailureError(code, out, err) ==
  [name |-> "failure",
   message |-> <<"Command failed with code ", code, ": ",
                 IF err # <<>> THEN err ELSE out>>]

\* The error the 'error' event carries when the executable is not found.
SpawnError(cmd) == [name |-> "spawn", message |-> <<"spawn ", cmd, " ENOENT">>]

\* ExitResult with sessionId and logFile in every result.
ExitResultAlwaysSession(code, out, err, pid) ==
  [success |-> code = Some(0), stdout |-> out, stderr |-> err,
   code |-> code, pid |-> pid,
   sessionId |-> logger.sessionId, logFile |-> logger.logFile]

\* The result object the exit handler builds.
ExitResult(code, out, err, pid) ==
  IF options.saveLog
  THEN [success |-> code = Some(0), stdout |-> out, stderr |-> err,
        code |-> code, pid |-> pid,
        sessionId |-> logger.sessionId, logFile |-> logger.logFile]
  ELSE [success |-> code = Some(0), stdout |-> out, stderr |-> err,
        code |-> code, pid |-> pid]

\* The result object a detached invocation resolves with.
DetachedResult(pid) ==
  [success |-> TRUE, pid |-> pid, detached |-> TRUE,
   message |-> "Process started in background"]

\* ExitProceeds without the test of timedOut.
ExitProceedsAlways(t) == TRUE

\* if (timedOut) return; the exit handler goes on only when no timeout fired.
ExitProceeds(t) == ~t

\* ExitSettle resolving whatever the exit code.
ExitSettleAlwaysResolves(p, code, out, err, pid) ==
  Resolve(p, ExitResult(code, out, err, pid), "exit")

\* if (code === 0) resolve(result) else reject(...)
ExitSettle(p, code, out, err, pid) ==
  IF code = Some(0)
  THEN Resolve(p, ExitResult(code, out, err, pid), "exit")
  ELSE Reject(p, CommandFailureError(code, out, err), "exit")

\* if (timeoutId) clearTimeout(timeoutId): a timer that fired stays fired.
ClearTimeout(id) == IF id = "armed" THEN "cleared" ELSE id

\* process.pid of the host process that calls runCommand.
HostPid == 77

\* `${Date.now()}-${process.pid}`
SessionId(t, pid) == <<t, pid>>

\* The length of a day on the model's clock.
DayLength == 4

\* new Date().toISOString().split('T')[0]: the day of instant t.
DateDir(t) == t \div DayLength

\* path.join(dateDir, `session-${sessionId}.log`)
LogFile(date, sessionId) == [date |-> date, name |-> sessionId]

\* new Logger({saveLog, logDir, logLevel, logToConsole}) in the process
\* hostPid. pending holds the appendFile calls that have not completed;
\* writes counts the calls of writeLog that reached appendFile.
NewLogger(o, hostPid) ==
  [saveLog |-> o.saveLog # FALSE, logLevel |-> o.logLevel,
   logToConsole |-> o.logToConsole # FALSE,
   sessionId |-> SessionId(now, hostPid), logFile |-> None,
   startTime |-> now, pending |-> <<>>, writes |-> 0]

\* Logger.initialize once mkdir has succeeded: this.logFile is set. The
\* date of the directory is taken when initialize is called, which
\* runCommand does in the same run as the constructor.
SetLogFile(lg) ==
  [lg EXCEPT !.logFile = Some(LogFile(DateDir(lg.startTime), lg.sessionId))]

\* Logger.writeLog(data): the line is built, with its timestamp, when
\* writeLog is called, and handed to appendFile. seq stands for the
\* timestamp of the line: the position of the call among the logger's calls
\* of writeLog.
WriteLog(lg, awaiter, data) ==
  [lg EXCEPT !.writes = @ + 1,
             !.pending = Append(@, [awaiter |-> awaiter, seq |-> lg.writes + 1,
                                    entry |-> data])]

\* The ChildProcess object before spawn. spawns counts the calls of spawn
\* by the invocation that returned a ChildProcess.
NoChild ==
  [state |-> "none", pid |-> None, env |-> None, ignoresTerm |-> FALSE,
   termSent |-> FALSE, errorPending |-> FALSE, stdin |-> FALSE,
   stdinEnded |-> FALSE,
   unref |-> FALSE, writes |-> 0, out |-> 0, err |-> 0, exit |-> None,
   spawns |-> 0]

\* Removal of the i-th element of a sequence.
Remove(s, i) == SubSeq(s, 1, i - 1) \o SubSeq(s, i + 1, Len(s))

\* ------------------------------------------------------------- initial state
\* The caller-supplied environments and the host environments of Spec;
\* EnvSpec below runs every command under every environment.
CallerEnvs == {[k \in EnvNames |-> "1"]}
HostEnvs == {[k \in EnvNames |-> "1"]}

\* runCommand(command): args defaults to [] and cwd to process.cwd().
DirectCall == [args |-> <<>>, cwd |-> "."]

\* The runner before the executor has run.
NotStarted ==
  /\ cleanEnv = None
  /\ logger = NewLogger([saveLog |-> FALSE, logLevel |-> "full",
                       logToConsole |-> TRUE], HostPid)
  /\ logLines = <<>>
  /\ childProcess = NoChild
  /\ pipes = [out |-> <<>>, err |-> <<>>]
  /\ stdout = <<>>
  /\ stderr = <<>>
  /\ timedOut = FALSE
  /\ timeoutId = "none"
  /\ errorPc = "none"
  /\ exitPc = "none"
  /\ promise = NewPromise
  /\ console = <<>>

\* One call of runCommand by the host process, with nothing else going on:
\* the clock stands still, no other invocation, no reader of the logs.
InitWith(cmds, envs, hostEnvs) ==
  /\ now = 0
  /\ loggers = <<>>
  /\ logRoot = None
  /\ answer = None
  /\ api = None
  /\ invocation = DirectCall
  /\ command \in cmds
  /\ options \in [env : envs, detached : BOOLEAN, stdio : {"pipe", "ignore"},
                  timeout : Timeouts, saveLog : BOOLEAN, logLevel : {"full"},
                  logging : {FALSE}, logToConsole : {FALSE}]
  /\ processEnv \in hostEnvs
  /\ pc = "idle"
  /\ NotStarted

Init ==
  InitWith(Commands \ {"echo"}, {None} \cup {Some(e) : e \in CallerEnvs},
           HostEnvs)

\* SpawnAndRegister with stdin.end() for every command.
SpawnAndRegisterEndsEveryStdin(ig, env) ==
  IF command = ""
  THEN /\ pc' = "threw"
       /\ UNCHANGED <<childProcess, timeoutId, promise>>
  ELSE /\ pc' = "registered"
       /\ childProcess' =
            [NoChild EXCEPT
               !.state = IF command \in Installed THEN "running" ELSE "failed",
               !.pid = IF command \in Installed THEN Some(ChildPid) ELSE None,
               !.errorPending = command \notin Installed,
               !.ignoresTerm = ig /\ command \in Installed,
               !.env = Some(env),
               !.stdin = (options.stdio = "pipe"),
               !.spawns = childProcess.spawns + 1,
               !.stdinEnded = (options.stdio = "pipe"),
               !.unref = options.detached]
       /\ timeoutId' = IF Truthy(options.timeout) THEN "armed" ELSE "none"
       /\ promise' = IF options.detached
                     THEN Resolve(promise, DetachedResult(childProcess'.pid),
                                  "detached")
                     ELSE promise

\* ------------------------------------------------------------- the executor
\* Lines 341-441: spawn, stdin.end() for claude, the timer, the handlers,
\* and the immediate resolve of a detached invocation. spawn('') throws
\* inside the async executor, which settles nothing. A command that is not
\* installed gives a ChildProcess with no pid whose 'error' event is
\* emitted on the next tick. ig: whether the child ignores SIGTERM; env: the
\* env option handed to spawn.
SpawnAndRegister(ig, env) ==
  IF command = ""
  THEN /\ pc' = "threw"
       /\ UNCHANGED <<childProcess, timeoutId, promise>>
  ELSE /\ pc' = "registered"
       /\ childProcess' =
            [NoChild EXCEPT
               !.state = IF command \in Installed THEN "running" ELSE "failed",
               !.pid = IF command \in Installed THEN Some(ChildPid) ELSE None,
               !.errorPending = command \notin Installed,
               !.ignoresTerm = ig /\ command \in Installed,
               !.env = Some(env),
               !.stdin = (options.stdio = "pipe"),
               !.spawns = childProcess.spawns + 1,
               !.stdinEnded = (command = "claude" /\ options.stdio = "pipe"),
               !.unref = options.detached]
       /\ timeoutId' = IF Truthy(options.timeout) THEN "armed" ELSE "none"
       /\ promise' = IF options.detached
                     THEN Resolve(promise, DetachedResult(childProcess'.pid),
                                  "detached")
                     ELSE promise

\* A chunk of the child's output written to the console of the host:
\* process.stdout.write(`[stdout] ${text}`), or
\* process.stderr.write(`[stderr] ${text}`).
ConsoleChunk(type, text) ==
  [channel |-> type, kind |-> type, text |-> text]

\* A status line of runCommand: console.log or console.error of a message.
ConsoleStatus(channel, message) ==
  [channel |-> channel, kind |-> "status", text |-> <<message>>]

\* if (logging && !saveLog) console...(message): the lines runCommand itself
\* writes about the execution.
Status(channel, message) ==
  IF options.logging /\ ~options.saveLog
  THEN <<ConsoleStatus(channel, message)>>
  ELSE <<>>

\* The data handlers' echo of a chunk: with saveLog it is the Logger's
\* (logStdout / logStderr write it when logToConsole), without saveLog it is
\* runCommand's own (when logging).
EchoChunk(lg, type, text) ==
  IF options.saveLog
  THEN IF lg.logToConsole THEN <<ConsoleChunk(type, text)>> ELSE <<>>
  ELSE IF options.logging THEN <<ConsoleChunk(type, text)>> ELSE <<>>

\* runCommand(command, args, options) up to the first await: without
\* saveLog the whole executor, with saveLog up to the mkdir of initialize.
RunCommand ==
  /\ pc = "idle"
  /\ cleanEnv' = CleanEnv(EffectiveEnv)
  /\ logger' = NewLogger(options, HostPid)
  /\ IF options.saveLog
     THEN /\ pc' = "mkdir"
          /\ UNCHANGED <<childProcess, timeoutId, promise>>
     ELSE \E ig \in BOOLEAN : SpawnAndRegister(ig, CleanEnv(EffectiveEnv))
  /\ console' = console \o Status("log", "Executing")
                        \o Status("log", "Working directory")
  /\ processEnv' = IF options.env = None
                   THEN SourceEnvAfterClean(processEnv)
                   ELSE processEnv
  /\ options' = IF options.env = None
                THEN options
                ELSE [options EXCEPT
                        !.env = Some(SourceEnvAfterClean(options.env[1]))]
  /\ UNCHANGED <<aux, command, logLines, pipes, stdout,
                 stderr, timedOut, errorPc, exitPc>>

\* Logger.initialize: await mkdir(dateDir) ends. A failure is thrown out of
\* initialize and out of the executor; otherwise logFile is set and the
\* session_start write is issued and awaited.
MkdirDone ==
  /\ pc = "mkdir"
  /\ \E ok \in BOOLEAN :
       IF ok
       THEN /\ pc' = "writeStart"
            /\ logger' = WriteLog(
                 SetLogFile(logger),
                 "initialize",
                 [type |-> "session_start", sessionId |-> logger.sessionId,
                  command |-> command])
       ELSE /\ pc' = "threw"
            /\ UNCHANGED logger
  /\ UNCHANGED <<aux, console, command, options, processEnv,
                 cleanEnv, logLines,
                 childProcess, pipes, stdout, stderr, timedOut, timeoutId,
                 errorPc, exitPc, promise>>

\* The position in logger.pending of the write a handler awaits.
Awaited(who) ==
  CHOOSE i \in 1..Len(logger.pending) : logger.pending[i].awaiter = who

\* Logger.writeLog: the appendFile of the write at position i ends, with
\* the line in the file when it succeeded.
Appended(i, ok) ==
  /\ logger' = [logger EXCEPT !.pending = Remove(@, i)]
  /\ logLines' = IF ok
                 THEN Append(logLines, [seq |-> logger.pending[i].seq,
                                        entry |-> logger.pending[i].entry])
                 ELSE logLines

\* WriteStartDone with the failure of the write swallowed: the executor
\* spawns whether or not session_start reached the file.
WriteStartDoneSwallowsFailure ==
  /\ pc = "writeStart"
  /\ \E ok \in BOOLEAN :
       /\ Appended(Awaited("initialize"), ok)
       /\ \E ig \in BOOLEAN : SpawnAndRegister(ig, cleanEnv)
  /\ UNCHANGED <<aux, console, command, options, processEnv,
                 cleanEnv, pipes, stdout,
                 stderr, timedOut, errorPc, exitPc>>

\* Logger.initialize: await writeLog(session_start) ends; the executor goes
\* on to spawn unless the write failed.
WriteStartDone ==
  /\ pc = "writeStart"
  /\ \E ok \in BOOLEAN :
       /\ Appended(Awaited("initialize"), ok)
       /\ IF ok
          THEN \E ig \in BOOLEAN : SpawnAndRegister(ig, cleanEnv)
          ELSE /\ pc' = "threw"
               /\ UNCHANGED <<childProcess, timeoutId, promise>>
  /\ UNCHANGED <<aux, console, command, options, processEnv,
                 cleanEnv, pipes, stdout,
                 stderr, timedOut, errorPc, exitPc>>

\* ------------------------------------------------------------- the child
\* The child writes its next one or two bytes to stdout, or its next byte
\* to stderr, as one chunk. With stdio 'ignore' there is no pipe and
\* nothing reaches the runner.
ChildWrite ==
  /\ childProcess.state = "running"
  /\ options.stdio = "pipe"
  /\ childProcess.writes < MaxWrites
  /\ \/ \E n \in 1..2 :
          /\ pipes' = [pipes EXCEPT !.out = Append(@,
                 OutBytes(childProcess.out + 1, childProcess.out + n))]
          /\ childProcess' = [childProcess EXCEPT !.out = @ + n,
                                                  !.writes = @ + 1]
     \/ /\ pipes' = [pipes EXCEPT !.err = Append(@,
                 ErrBytes(childProcess.err + 1, childProcess.err + 1))]
        /\ childProcess' = [childProcess EXCEPT !.err = @ + 1,
                                                !.writes = @ + 1]
  /\ UNCHANGED <<aux, console, command, options, processEnv,
                 pc, cleanEnv, logger, logLines,
                 stdout, stderr, timedOut, timeoutId, errorPc, exitPc, promise>>

\* ------------------------------------------------------------- the timer
\* The setTimeout callback: timedOut = true, kill('SIGTERM'), reject. The
\* 'error' event of a failed spawn is emitted on the next tick, before any
\* timer can fire.
TimerFire ==
  /\ timeoutId = "armed"
  /\ ~childProcess.errorPending
  /\ timeoutId' = "fired"
  /\ timedOut' = TRUE
  /\ childProcess' = IF childProcess.state = "running"
                     THEN [childProcess EXCEPT !.termSent = TRUE]
                     ELSE childProcess
  /\ promise' = Reject(promise, TimeoutError(options.timeout), "timer")
  /\ UNCHANGED <<aux, console, command, options, processEnv,
                 pc, cleanEnv, logger, logLines,
                 pipes, stdout, stderr, errorPc, exitPc>>

\* ------------------------------------------------------------- data events
\* Logger.logStdout / logStderr: with logLevel 'full' a write of the chunk
\* is issued and not awaited.
LogChunk(lg, type, text) ==
  IF lg.logLevel = "full" /\ lg.saveLog /\ lg.logFile # None
  THEN WriteLog(lg, "nobody", [type |-> type, data |-> text])
  ELSE lg

\* childProcess.stdout.on('data'): the oldest undelivered chunk arrives.
StdoutData ==
  /\ pc = "registered"
  /\ options.stdio = "pipe"
  /\ pipes.out # <<>>
  /\ pipes' = [pipes EXCEPT !.out = Tail(@)]
  /\ stdout' = stdout \o ToString(Head(pipes.out))
  /\ logger' = IF options.saveLog
               THEN LogChunk(logger, "stdout", ToString(Head(pipes.out)))
               ELSE logger
  /\ console' = console \o
                  EchoChunk(logger, "stdout", ToString(Head(pipes.out)))
  /\ UNCHANGED <<aux, command, options, processEnv, pc, cleanEnv, logLines,
                 childProcess, stderr, timedOut, timeoutId, errorPc, exitPc,
                 promise>>

\* childProcess.stderr.on('data')
StderrData ==
  /\ pc = "registered"
  /\ options.stdio = "pipe"
  /\ pipes.err # <<>>
  /\ pipes' = [pipes EXCEPT !.err = Tail(@)]
  /\ stderr' = stderr \o ToString(Head(pipes.err))
  /\ logger' = IF options.saveLog
               THEN LogChunk(logger, "stderr", ToString(Head(pipes.err)))
               ELSE logger
  /\ console' = console \o
                  EchoChunk(logger, "stderr", ToString(Head(pipes.err)))
  /\ UNCHANGED <<aux, command, options, processEnv, pc, cleanEnv, logLines,
                 childProcess, stdout, timedOut, timeoutId, errorPc, exitPc,
                 promise>>

\* ChunkWriteDone without the .catch that reports the failure.
ChunkWriteDoneSilent ==
  /\ \E i \in 1..Len(logger.pending) :
       /\ logger.pending[i].awaiter = "nobody"
       /\ \E ok \in BOOLEAN : Appended(i, ok)
  /\ UNCHANGED <<aux, console, command, options, processEnv, pc,
                 cleanEnv, childProcess,
                 pipes, stdout, stderr, timedOut, timeoutId, errorPc, exitPc,
                 promise>>

\* The appendFile of a chunk write that nobody awaits ends; a failure goes
\* to console.error.
ChunkWriteDone ==
  /\ \E i \in 1..Len(logger.pending) :
       /\ logger.pending[i].awaiter = "nobody"
       /\ \E ok \in BOOLEAN :
            /\ Appended(i, ok)
            /\ console' = IF ok
                          THEN console
                          ELSE Append(console,
                                 ConsoleStatus("error", "Log write error:"))
  /\ UNCHANGED <<aux, command, options, processEnv, pc, cleanEnv, childProcess,
                 pipes, stdout, stderr, timedOut, timeoutId, errorPc, exitPc,
                 promise>>

\* ------------------------------------------------------------- 'error'
\* childProcess.on('error'): clearTimeout, then with saveLog the awaited
\* logError, then reject(error).
ErrorEvent ==
  /\ pc = "registered"
  /\ childProcess.errorPending
  /\ childProcess' = [childProcess EXCEPT !.errorPending = FALSE]
  /\ timeoutId' = ClearTimeout(timeoutId)
  /\ IF options.saveLog
     THEN /\ errorPc' = "logError"
          /\ logger' = WriteLog(logger, "error",
               [type |-> "error", message |-> SpawnError(command).message])
          /\ UNCHANGED promise
     ELSE /\ errorPc' = "done"
          /\ promise' = Reject(promise, SpawnError(command), "error")
          /\ UNCHANGED logger
  /\ console' = console \o Status("error", "Process error")
  /\ UNCHANGED <<aux, command, options, processEnv,
                 pc, cleanEnv, logLines, pipes,
                 stdout, stderr, timedOut, exitPc>>

\* await logger.logError(error) ends: a failed write is thrown out of the
\* handler, which then never reaches reject(error).
LogErrorDone ==
  /\ errorPc = "logError"
  /\ \E ok \in BOOLEAN :
       /\ Appended(Awaited("error"), ok)
       /\ IF ok
          THEN /\ errorPc' = "done"
               /\ promise' = Reject(promise, SpawnError(command), "error")
          ELSE /\ errorPc' = "threw"
               /\ UNCHANGED promise
  /\ UNCHANGED <<aux, console, command, options, processEnv, pc,
                 cleanEnv, childProcess,
                 pipes, stdout, stderr, timedOut, timeoutId, exitPc>>

\* OnExit with a retry: after a failure the command is spawned again.
OnExitRetries(code, signal) ==
  /\ childProcess' =
       IF code # Some(0) /\ childProcess.spawns < 2
       THEN [childProcess EXCEPT !.spawns = @ + 1]
       ELSE [childProcess EXCEPT
               !.state = "exited",
               !.exit = Some([code |-> code, signal |-> signal])]
  /\ timeoutId' = ClearTimeout(timeoutId)
  /\ IF ~ExitProceeds(timedOut)
     THEN /\ exitPc' = "returned"
          /\ UNCHANGED <<logger, promise>>
     ELSE IF options.saveLog
     THEN /\ exitPc' = "logExit"
          /\ logger' = WriteLog(logger, "exit",
               [type |-> "session_end", code |-> code, signal |-> signal])
          /\ UNCHANGED promise
     ELSE /\ exitPc' = "done"
          /\ promise' = ExitSettle(promise, code, stdout, stderr,
                                   childProcess.pid)
          /\ UNCHANGED logger
  /\ console' = IF ExitProceeds(timedOut)
                THEN console \o Status("log", "Process exited")
                ELSE console
  /\ UNCHANGED <<aux, command, options, processEnv,
                 pc, cleanEnv, logLines, pipes,
                 stdout, stderr, timedOut, errorPc>>

\* ------------------------------------------------------------- 'exit'
\* childProcess.on('exit', (code, signal)): clearTimeout, return if the
\* timeout fired, then with saveLog the awaited logExit, then the result.
OnExit(code, signal) ==
  /\ childProcess' = [childProcess EXCEPT
       !.state = "exited", !.exit = Some([code |-> code, signal |-> signal])]
  /\ timeoutId' = ClearTimeout(timeoutId)
  /\ IF ~ExitProceeds(timedOut)
     THEN /\ exitPc' = "returned"
          /\ UNCHANGED <<logger, promise>>
     ELSE IF options.saveLog
     THEN /\ exitPc' = "logExit"
          /\ logger' = WriteLog(logger, "exit",
               [type |-> "session_end", code |-> code, signal |-> signal])
          /\ UNCHANGED promise
     ELSE /\ exitPc' = "done"
          /\ promise' = ExitSettle(promise, code, stdout, stderr,
                                   childProcess.pid)
          /\ UNCHANGED logger
  /\ console' = IF ExitProceeds(timedOut)
                THEN console \o Status("log", "Process exited")
                ELSE console
  /\ UNCHANGED <<aux, command, options, processEnv,
                 pc, cleanEnv, logLines, pipes,
                 stdout, stderr, timedOut, errorPc>>

\* The child exits by itself, with an exit code.
ChildExits ==
  /\ pc = "registered"
  /\ childProcess.state = "running"
  /\ \E code \in ExitCodes : OnExit(Some(code), None)

\* The child is terminated by the SIGTERM the timer sent.
ChildKilled ==
  /\ pc = "registered"
  /\ childProcess.state = "running"
  /\ childProcess.termSent
  /\ ~childProcess.ignoresTerm
  /\ OnExit(None, Some("SIGTERM"))

\* await logger.logExit(code, signal) ends: a failed write is thrown out of
\* the handler, which then never builds the result.
LogExitDone ==
  /\ exitPc = "logExit"
  /\ \E ok \in BOOLEAN :
       /\ Appended(Awaited("exit"), ok)
       /\ IF ok
          THEN /\ exitPc' = "done"
               /\ promise' = ExitSettle(promise, childProcess.exit[1].code,
                                        stdout, stderr, childProcess.pid)
          ELSE /\ exitPc' = "threw"
               /\ UNCHANGED promise
  /\ UNCHANGED <<aux, console, command, options, processEnv, pc,
                 cleanEnv, childProcess,
                 pipes, stdout, stderr, timedOut, timeoutId, errorPc>>

\* ------------------------------------------------------------- specification
Next ==
  \/ RunCommand
  \/ MkdirDone
  \/ WriteStartDone
  \/ ChildWrite
  \/ TimerFire
  \/ StdoutData
  \/ StderrData
  \/ ChunkWriteDone
  \/ ErrorEvent
  \/ LogErrorDone
  \/ ChildExits
  \/ ChildKilled
  \/ LogExitDone

Spec == Init /\ [][Next]_vars

\* The executor and the handlers run when the event loop gets to them; a
\* child that does not ignore SIGTERM dies of it. Nothing makes a child
\* write or exit by itself.
RunnerNext ==
  \/ RunCommand
  \/ MkdirDone
  \/ WriteStartDone
  \/ TimerFire
  \/ StdoutData
  \/ StderrData
  \/ ChunkWriteDone
  \/ ErrorEvent
  \/ LogErrorDone
  \/ LogExitDone

FairSpec == Spec /\ WF_vars(RunnerNext) /\ WF_vars(ChildKilled)

\* The invocation up to the spawn, over every environment.
EnvInit == InitWith(Commands, {None} \cup {Some(e) : e \in Envs}, Envs)
EnvNext == RunCommand \/ MkdirDone \/ WriteStartDone
EnvSpec == EnvInit /\ [][EnvNext]_vars

\* ------------------------------------------------------------- sessions
\* Several invocations with saveLog on one host: each constructs its Logger
\* and starts initialize at the instant of its call; the clock advances
\* between calls or does not.
MaxNow == 2
MaxLoggers == 2

\* The pids of the processes of the host that call runCommand.
HostPids == {HostPid, HostPid + 1}

\* The options runCommand's destructuring gives to a call without options.
DefaultOptions ==
  [env |-> None, detached |-> FALSE, stdio |-> "pipe", timeout |-> None,
   saveLog |-> FALSE, logLevel |-> "full", logging |-> TRUE,
   logToConsole |-> TRUE]

\* No call of runCommand under observation.
RunnerIdle ==
  /\ command = "claude"
  /\ options = DefaultOptions
  /\ processEnv \in HostEnvs
  /\ pc = "idle"
  /\ NotStarted

SessionInit ==
  /\ now = 0
  /\ loggers = <<>>
  /\ logRoot = None
  /\ answer = None
  /\ api = None
  /\ invocation = DirectCall
  /\ RunnerIdle

\* A millisecond passes.
Tick ==
  /\ now < MaxNow
  /\ now' = now + 1
  /\ UNCHANGED <<console, command, options, processEnv, pc, cleanEnv, logger,
                 logLines, childProcess, pipes, stdout, stderr, timedOut,
                 timeoutId, errorPc, exitPc, promise, loggers, logRoot,
                 answer, api, invocation>>

\* The process hostPid calls runCommand with saveLog: new Logger(...), and
\* logger.initialize up to its mkdir.
Invoke(hostPid) ==
  /\ Len(loggers) < MaxLoggers
  /\ loggers' = Append(loggers,
       NewLogger([saveLog |-> TRUE, logLevel |-> "full",
                  logToConsole |-> TRUE], hostPid))
  /\ UNCHANGED <<console, command, options, processEnv, pc, cleanEnv, logger,
                 logLines, childProcess, pipes, stdout, stderr, timedOut,
                 timeoutId, errorPc, exitPc, promise, now, logRoot, answer,
                 api, invocation>>

\* The mkdir of invocation i succeeds: its logFile is set, and every write
\* of the invocation appends to that file.
MkdirOk(i) ==
  /\ loggers[i].logFile = None
  /\ loggers' = [loggers EXCEPT ![i] = SetLogFile(@)]
  /\ UNCHANGED <<console, command, options, processEnv, pc, cleanEnv, logger,
                 logLines, childProcess, pipes, stdout, stderr, timedOut,
                 timeoutId, errorPc, exitPc, promise, now, logRoot, answer,
                 api, invocation>>

SessionNext ==
  \/ Tick
  \/ \E p \in HostPids : Invoke(p)
  \/ \E i \in 1..Len(loggers) : MkdirOk(i)

SessionSpec == SessionInit /\ [][SessionNext]_vars

\* ------------------------------------------------------------- the reader
\* Logger.getRecentSessions and Logger.viewLog over the log directory. A
\* file is a sequence of tokens: the braces and the body of a JSON object,
\* the newline, and bytes that belong to no JSON text.
Open == [t |-> "{"]
Close == [t |-> "}"]
NL == [t |-> "\n"]
Junk == [t |-> "x"]

\* JSON.stringify(line)
Stringify(line) == <<Open, [t |-> "body", line |-> line], Close>>

\* JSON.parse(text) returns: text is one whole object. A cut object, the
\* empty text and junk make it throw.
JSONParses(text) ==
  /\ Len(text) = 3
  /\ text[1].t = "{"
  /\ text[2].t = "body"
  /\ text[3].t = "}"

\* JSON.parse(text), when it returns.
JSONParse(text) == text[2].line

\* The content of a file to which the lines were appended, each as
\* JSON.stringify(line) + '\n'.
RECURSIVE FileContent(_)
FileContent(lines) ==
  IF lines = <<>> THEN <<>>
  ELSE Stringify(Head(lines)) \o <<NL>> \o FileContent(Tail(lines))

\* text.split('\n')
RECURSIVE Split(_)
Split(text) ==
  IF \A i \in 1..Len(text) : text[i].t # "\n"
  THEN <<text>>
  ELSE LET i == CHOOSE k \in 1..Len(text) :
                  /\ text[k].t = "\n"
                  /\ \A h \in 1..(k - 1) : text[h].t # "\n"
       IN <<SubSeq(text, 1, i - 1)>> \o Split(SubSeq(text, i + 1, Len(text)))

\* text.trim(): the newline is the only whitespace a log file holds.
RECURSIVE Trim(_)
Trim(text) ==
  IF text = <<>> THEN text
  ELSE IF text[1].t = "\n" THEN Trim(Tail(text))
  ELSE IF text[Len(text)].t = "\n" THEN Trim(SubSeq(text, 1, Len(text) - 1))
  ELSE text

\* readFirstLine(filePath): the text before the first newline, the whole
\* text when there is none.
ReadFirstLine(content) == Split(content)[1]

\* getRecentSessions(logDir, limit = 10): the default of limit.
DefaultLimit == 10
\* viewLog: Logger.getRecentSessions(logsPath, 100)
ViewLimit == 100

\* dates.sort().reverse(): the names of the date directories are ISO dates,
\* whose order as strings is the order of the days.
SortReverse(S) ==
  [i \in 1..Cardinality(S) |->
     CHOOSE x \in S : Cardinality({y \in S : y >= x}) = i]

\* The order of two file names session-<ms>-<pid>.log as strings: by the
\* milliseconds, then by the pid (decimal numbers of the same length).
NameLeq(a, b) == a[1] < b[1] \/ (a[1] = b[1] /\ a[2] <= b[2])

\* files.sort().reverse()
SortNamesReverse(S) ==
  [i \in 1..Cardinality(S) |->
     CHOOSE x \in S : Cardinality({y \in S : NameLeq(x, y)}) = i]

\* readdir(dateDir): the names of the files of a date directory.
Readdir(files, date) == {f.name : f \in {g \in files : g.date = date}}

\* readFile(path)
ReadFile(files, path) ==
  (CHOOSE f \in files : f.date = path.date /\ f.name = path.name).content

\* CollectFiles with a loop that ends at the first file it cannot use: the
\* sessions found so far are returned.
RECURSIVE CollectFilesStopsAtCorrupt(_, _, _, _, _, _)
CollectFilesStopsAtCorrupt(files, date, names, i, sessions, limit) ==
  IF i > Len(names) THEN [sessions |-> sessions, returned |-> FALSE]
  ELSE LET logPath == LogFile(date, names[i])
           firstLine == ReadFirstLine(ReadFile(files, logPath))
           isStart == /\ firstLine # <<>>
                      /\ JSONParses(firstLine)
                      /\ JSONParse(firstLine).entry.type = "session_start"
           pushed == Append(sessions,
                       [sessionId |-> JSONParse(firstLine).entry.sessionId,
                        command |-> JSONParse(firstLine).entry.command,
                        logFile |-> logPath])
       IN IF ~isStart
          THEN [sessions |-> sessions, returned |-> TRUE]
          ELSE IF Len(pushed) >= limit
          THEN [sessions |-> pushed, returned |-> TRUE]
          ELSE CollectFilesStopsAtCorrupt(files, date, names, i + 1, pushed,
                                          limit)

\* The inner loop of getRecentSessions over the sorted names of one date
\* directory, from the i-th on: a file whose first line is empty, does not
\* parse or is no session_start is skipped; limit is tested after a push,
\* and the function returns when it is reached.
RECURSIVE CollectFiles(_, _, _, _, _, _)
CollectFiles(files, date, names, i, sessions, limit) ==
  IF i > Len(names) THEN [sessions |-> sessions, returned |-> FALSE]
  ELSE LET logPath == LogFile(date, names[i])
           firstLine == ReadFirstLine(ReadFile(files, logPath))
           isStart == /\ firstLine # <<>>
                      /\ JSONParses(firstLine)
                      /\ JSONParse(firstLine).entry.type = "session_start"
           pushed == Append(sessions,
                       [sessionId |-> JSONParse(firstLine).entry.sessionId,
                        command |-> JSONParse(firstLine).entry.command,
                        logFile |-> logPath])
       IN IF ~isStart
          THEN CollectFiles(files, date, names, i + 1, sessions, limit)
          ELSE IF Len(pushed) >= limit
          THEN [sessions |-> pushed, returned |-> TRUE]
          ELSE CollectFiles(files, date, names, i + 1, pushed, limit)

\* The outer loop of getRecentSessions over the sorted date directories,
\* from the d-th on.
RECURSIVE CollectDates(_, _, _, _, _)
CollectDates(files, dates, d, sessions, limit) ==
  IF d > Len(dates) THEN sessions
  ELSE LET r == CollectFiles(files, dates[d],
                             SortNamesReverse(Readdir(files, dates[d])),
                             1, sessions, limit)
       IN IF r.returned THEN r.sessions
          ELSE CollectDates(files, dates, d + 1, r.sessions, limit)

\* The error readdir(logsPath) throws, if any: ENOENT for a log directory
\* that does not exist.
ReaddirError(root) ==
  IF root = None THEN Some([code |-> "ENOENT"]) ELSE None

\* The outer catch of getRecentSessions without its test of err.code.
RethrownAlways(err) == TRUE

\* The outer catch of getRecentSessions: if (err.code !== 'ENOENT') throw err
Rethrown(err) == err.code # "ENOENT"

\* Logger.getRecentSessions(logDir, limit) throws.
GetRecentSessionsThrows(root) ==
  ReaddirError(root) # None /\ Rethrown(ReaddirError(root)[1])

\* Logger.getRecentSessions(logDir, limit), when it returns: a log
\* directory that does not exist (ENOENT) gives no session.
GetRecentSessions(root, limit) ==
  IF root = None THEN <<>>
  ELSE CollectDates(root[1], SortReverse({f.date : f \in root[1]}), 1,
                    <<>>, limit)

\* The lines of viewLog's loop that JSON.parse accepts, parsed.
RECURSIVE ParseLines(_)
ParseLines(lines) ==
  IF lines = <<>> THEN <<>>
  ELSE IF JSONParses(Head(lines))
  THEN <<JSONParse(Head(lines))>> \o ParseLines(Tail(lines))
  ELSE ParseLines(Tail(lines))

\* new Error(`Session ${sessionId} not found`)
SessionNotFound(sessionId) ==
  [message |-> <<"Session ", sessionId, " not found">>]

\* Logger.viewLog(sessionId, logDir)
ViewLog(root, sessionId) ==
  LET sessions == GetRecentSessions(root, ViewLimit)
      hits == {i \in 1..Len(sessions) : sessions[i].sessionId = sessionId}
  IN IF GetRecentSessionsThrows(root)
     THEN [ok |-> FALSE, error |-> ReaddirError(root)[1]]
     ELSE IF hits = {}
     THEN [ok |-> FALSE, error |-> SessionNotFound(sessionId)]
     ELSE LET session == sessions[CHOOSE i \in hits : \A j \in hits : i <= j]
              content == ReadFile(root[1], session.logFile)
          IN [ok |-> TRUE, logs |-> ParseLines(Split(Trim(content)))]

\* The log directory holds the files of earlier invocations with saveLog
\* by the host process, one per millisecond around the end of the first
\* day, whole or cut short by a crash at any token, or with a first line
\* that is junk or is no session_start; or it holds more sessions than
\* viewLog lists; or it does not exist.
MaxSessions == 2
MaxLimit == 2

\* The lines written by an invocation of claude that printed one chunk and
\* exited with code 0.
SessionLog(sessionId) ==
  <<[seq |-> 1, entry |-> [type |-> "session_start", sessionId |-> sessionId,
                           command |-> "claude"]],
    [seq |-> 2, entry |-> [type |-> "stdout", data |-> <<"E">>]],
    [seq |-> 3, entry |-> [type |-> "session_end", code |-> Some(0),
                           signal |-> None]]>>

\* The length of the file of a whole session.
WholeLength == Len(FileContent(SessionLog(SessionId(0, HostPid))))

\* The contents a stored file of the session can have: variant v <=
\* WholeLength is the file cut after v tokens.
Variants == 0..(WholeLength + 2)
Content(sessionId, v) ==
  IF v <= WholeLength
  THEN SubSeq(FileContent(SessionLog(sessionId)), 1, v)
  ELSE IF v = WholeLength + 1
  THEN <<Junk, NL>> \o FileContent(Tail(SessionLog(sessionId)))
  ELSE FileContent(Tail(SessionLog(sessionId)))

\* The file of the session in its date directory.
StoredFile(sessionId, content) ==
  [date |-> DateDir(sessionId[1]), name |-> sessionId, content |-> content]

SessionIds ==
  {SessionId(DayLength - 2 + k, HostPid) : k \in 1..MaxSessions}
\* A session id no file has.
AbsentId == SessionId(0, HostPid)

SmallRoots ==
  UNION {{{StoredFile(id, Content(id, c[id])) : id \in I} :
            c \in [I -> Variants]} : I \in SUBSET SessionIds}

\* One more whole session than viewLog asks getRecentSessions for.
BigRoot ==
  {StoredFile(SessionId(t, HostPid),
              FileContent(SessionLog(SessionId(t, HostPid)))) :
     t \in 1..(ViewLimit + 1)}

ReadInit ==
  /\ now = 0
  /\ loggers = <<>>
  /\ logRoot \in {None} \cup {Some(r) : r \in SmallRoots \cup {BigRoot}}
  /\ answer = None
  /\ api = None
  /\ invocation = DirectCall
  /\ RunnerIdle

\* The ids of the files of the log directory.
StoredIds == IF logRoot = None THEN {} ELSE {f.name : f \in logRoot[1]}

\* The ids viewLog is asked for: those of the stored files and one that no
\* file has; every id when there is no log directory.
AskedIds ==
  (IF logRoot = None THEN SessionIds ELSE StoredIds) \cup {AbsentId}

\* The caller awaits Logger.getRecentSessions(logDir, limit), or
\* Logger.getRecentSessions(logDir). One call of the reader is observed.
CallGetRecentSessions ==
  /\ answer = None
  /\ \E limit \in {None} \cup {Some(n) : n \in 0..MaxLimit} :
       answer' = Some([op |-> "getRecentSessions", limit |-> limit,
                       threw |-> GetRecentSessionsThrows(logRoot),
                       sessions |-> GetRecentSessions(logRoot,
                          IF limit = None THEN DefaultLimit ELSE limit[1])])
  /\ UNCHANGED <<console, command, options, processEnv, pc, cleanEnv, logger,
                 logLines, childProcess, pipes, stdout, stderr, timedOut,
                 timeoutId, errorPc, exitPc, promise, now, loggers, logRoot,
                 api, invocation>>

\* The caller awaits Logger.viewLog(sessionId, logDir).
CallViewLog ==
  /\ answer = None
  /\ \E id \in AskedIds :
       answer' = Some([op |-> "viewLog", sessionId |-> id,
                       result |-> ViewLog(logRoot, id)])
  /\ UNCHANGED <<console, command, options, processEnv, pc, cleanEnv, logger,
                 logLines, childProcess, pipes, stdout, stderr, timedOut,
                 timeoutId, errorPc, exitPc, promise, now, loggers, logRoot,
                 api, invocation>>

ReadNext == CallGetRecentSessions \/ CallViewLog

ReadSpec == ReadInit /\ [][ReadNext]_vars

\* ------------------------------------------------------------- the wrappers
\* runClaude and runClaudeTask. An options object is a function from the
\* names of its keys to their values.
\* const {k = d} = o
Get(o, k, d) == IF k \in DOMAIN o THEN o[k] ELSE d

\* const {..., ...otherOptions} = o: o without the keys taken out by name.
Rest(o, ks) == [k \in DOMAIN o \ ks |-> o[k]]

\* {...a, ...b}: a key of b replaces the key of a.
Spread(a, b) ==
  [k \in DOMAIN a \cup DOMAIN b |-> IF k \in DOMAIN b THEN b[k] ELSE a[k]]

\* runClaude: const args = ['-p'], the flag, the prompt.
RunClaudeArgs(prompt, o) ==
  <<"-p">>
  \o (IF Get(o, "dangerouslySkipPermissions", TRUE)
      THEN <<"--dangerously-skip-permissions">> ELSE <<>>)
  \o <<prompt>>

\* runClaude: the options object it hands to runCommand.
RunClaudeOptions(o) ==
  LET cwd == Get(o, "cwd", ".")
      detached == Get(o, "detached", FALSE)
      fireAndForget == Get(o, "fireAndForget", FALSE)
      logging == Get(o, "logging", TRUE)
      otherOptions == Rest(o, {"cwd", "dangerouslySkipPermissions",
                               "detached", "fireAndForget", "logging"})
  IN IF fireAndForget
     THEN Spread([cwd |-> cwd, detached |-> TRUE, stdio |-> "ignore",
                  logging |-> logging], otherOptions)
     ELSE Spread([cwd |-> cwd, detached |-> detached, logging |-> logging],
                 otherOptions)

\* runClaudeTask: the options object it hands to runClaude.
RunClaudeTaskOptions(projectDir, o) ==
  Spread([cwd |-> projectDir, fireAndForget |-> TRUE,
          dangerouslySkipPermissions |-> TRUE,
          logging |-> Get(o, "logging", TRUE)], o)

\* runCommand's destructuring of its options object.
Destructure(o) ==
  [env |-> IF "env" \in DOMAIN o THEN Some(o.env) ELSE None,
   detached |-> Get(o, "detached", FALSE),
   stdio |-> Get(o, "stdio", "pipe"),
   timeout |-> Get(o, "timeout", None),
   saveLog |-> Get(o, "saveLog", FALSE),
   logLevel |-> Get(o, "logLevel", "full"),
   logging |-> Get(o, "logging", TRUE),
   logToConsole |-> Get(o, "logToConsole", Get(o, "logging", TRUE))]

\* The prompts, the project directories and the options objects of the
\* caller: each of the keys below is absent or has one of its values.
Prompts == {"hi"}
ProjectDirs == {"/project"}
Maybe(S) == {None} \cup {Some(v) : v \in S}
OptionChoices ==
  [cwd : Maybe({"/work"}), dangerouslySkipPermissions : Maybe(BOOLEAN),
   detached : Maybe(BOOLEAN), fireAndForget : Maybe(BOOLEAN),
   stdio : Maybe({"pipe"}), logging : Maybe(BOOLEAN)]
CallerOptions ==
  {[k \in {h \in DOMAIN c : c[h] # None} |-> c[k][1]] : c \in OptionChoices}

\* The caller before it calls a wrapper.
ApiInit ==
  /\ now = 0
  /\ loggers = <<>>
  /\ logRoot = None
  /\ answer = None
  /\ api = None
  /\ invocation = DirectCall
  /\ command = "claude"
  /\ options = DefaultOptions
  /\ processEnv \in HostEnvs
  /\ pc = "caller"
  /\ NotStarted

\* runCommand('claude', args, o) as called by runClaude, up to the promise
\* executor.
CallRunCommand(args, o) ==
  /\ pc' = "idle"
  /\ command' = "claude"
  /\ invocation' = [args |-> args, cwd |-> Get(o, "cwd", ".")]
  /\ options' = Destructure(o)
  /\ UNCHANGED <<processEnv, cleanEnv, logger, logLines, childProcess, pipes,
                 stdout, stderr, timedOut, timeoutId, errorPc, exitPc,
                 promise, now, loggers, logRoot, answer>>

\* The caller calls runClaude(prompt, o).
RunClaude ==
  /\ pc = "caller"
  /\ \E prompt \in Prompts, o \in CallerOptions :
       /\ api' = Some([fn |-> "runClaude", prompt |-> prompt,
                       projectDir |-> None, options |-> o])
       /\ CallRunCommand(RunClaudeArgs(prompt, o), RunClaudeOptions(o))
       /\ UNCHANGED console

\* The caller calls runClaudeTask(prompt, projectDir, o), which calls
\* runClaude.
RunClaudeTask ==
  /\ pc = "caller"
  /\ \E prompt \in Prompts, projectDir \in ProjectDirs, o \in CallerOptions :
       /\ api' = Some([fn |-> "runClaudeTask", prompt |-> prompt,
                       projectDir |-> Some(projectDir), options |-> o])
       /\ CallRunCommand(
            RunClaudeArgs(prompt, RunClaudeTaskOptions(projectDir, o)),
            RunClaudeOptions(RunClaudeTaskOptions(projectDir, o)))
       /\ console' = IF Get(o, "logging", TRUE)
                     THEN Append(console,
                            ConsoleStatus("log", "Starting background task"))
                     ELSE console

ApiNext == RunClaude \/ RunClaudeTask \/ RunCommand

ApiSpec == ApiInit /\ [][ApiNext]_vars

\* ------------------------------------------------------------- logging
\* runCommand('claude', [], o) for the options objects o whose logging keys
\* (saveLog, logging, logToConsole, logLevel) are each absent or present: the
\* child writes, the handlers echo and persist, the child exits.
LogChoices ==
  [saveLog : Maybe(BOOLEAN), logging : Maybe(BOOLEAN),
   logToConsole : Maybe(BOOLEAN), logLevel : Maybe({"full", "minimal"})]
LogOptions ==
  {[k \in {h \in DOMAIN c : c[h] # None} |-> c[k][1]] : c \in LogChoices}

LogInit ==
  /\ now = 0
  /\ loggers = <<>>
  /\ logRoot = None
  /\ answer = None
  /\ api = None
  /\ invocation = DirectCall
  /\ command = "claude"
  /\ options \in {Destructure(o) : o \in LogOptions}
  /\ processEnv \in HostEnvs
  /\ pc = "idle"
  /\ NotStarted

LogNext ==
  \/ RunCommand
  \/ MkdirDone
  \/ WriteStartDone
  \/ ChildWrite
  \/ StdoutData
  \/ StderrData
  \/ ChunkWriteDone
  \/ ChildExits
  \/ LogExitDone

LogSpec == LogInit /\ [][LogNext]_vars

\* runCommand(command, [], {saveLog: true, logLevel, timeout, logging: false})
\* for both log levels, with and without a timeout, for a command that
\* starts and one that does not.
LevelInit ==
  /\ now = 0
  /\ loggers = <<>>
  /\ logRoot = None
  /\ answer = None
  /\ api = None
  /\ invocation = DirectCall
  /\ command \in {"claude", "nonexistentcommand123"}
  /\ options \in {Destructure([saveLog |-> TRUE, logging |-> FALSE,
                                logLevel |-> l, timeout |-> t]) :
                     l \in {"full", "minimal"}, t \in Timeouts}
  /\ processEnv \in HostEnvs
  /\ pc = "idle"
  /\ NotStarted

LevelSpec == LevelInit /\ [][Next]_vars

\* ------------------------------------------------------------- claims
\* The value the promise was settled with.
Value == promise.value[1]
\* The exit code of the exit event observed.
ExitCode == childProcess.exit[1].code
\* The exit event was observed.
ExitSeen == childProcess.state = "exited"

\* C1: the call is settled by one of the timer, exit, error and detached
\* events and never by more than one: a settled promise keeps its outcome
\* and the event that settled it; once the timeout has fired the exit
\* handler makes no call of resolve or reject; once the exit event has been
\* observed the timer is not armed and never fires.
C1_SettledByOneEvent ==
  /\ [](promise.state # "pending" =>
          promise.by \in {"timer", "exit", "error", "detached"})
  /\ [][promise.state # "pending" =>
          /\ promise'.state = promise.state
          /\ promise'.value = promise.value
          /\ promise'.by = promise.by]_vars
  /\ [][(timedOut /\ ~ExitSeen /\ ExitSeen') => promise' = promise]_vars
  /\ [](ExitSeen => timeoutId # "armed")
  /\ [][(ExitSeen' /\ timeoutId # "fired") => timeoutId' # "fired"]_vars

\* C1 witness: the timer fired, rejected the call, and the exit event came
\* afterwards.
C1_Witness ==
  /\ timedOut /\ ExitSeen /\ exitPc = "returned"
  /\ promise.state = "rejected" /\ promise.by = "timer"

\* C2: every call settles: when nothing is left to run, a detached call
\* that was made with a non-empty command, and a call whose child exited,
\* whose spawn error was raised or whose timer fired, is not pending.
C2_EverySettles ==
  (/\ ~ENABLED Next
   /\ pc # "idle"
   /\ command # ""
   /\ \/ options.detached
      \/ ExitSeen
      \/ errorPc # "none"
      \/ timeoutId = "fired")
  => promise.state # "pending"

\* C3: when the timer has fired (which it does only before the exit
\* event), SIGTERM was sent to the child and the call is rejected with the
\* timeout error whose message holds the configured timeout, also after a
\* later exit event.
C3_TimeoutRejects ==
  timeoutId = "fired" =>
    /\ childProcess.termSent
    /\ promise.state = "rejected"
    /\ Value.name = "timeout"
    /\ Value.message[2] = options.timeout[1]

\* C4: after the call failed with the timeout error the child is
\* eventually no longer running.
C4_ChildStops ==
  (promise.state = "rejected" /\ promise.by = "timer")
    ~> (childProcess.state # "running")

\* C5: a non-detached invocation is resolved only once the exit event has
\* been observed with exit code 0, and then with success = true, code 0
\* and the stdout and stderr accumulated at that moment.
C5_ResolvedOnlyOnExitZero ==
  /\ []((~options.detached /\ promise.state = "resolved") =>
          /\ ExitSeen
          /\ ExitCode = Some(0)
          /\ promise.by = "exit"
          /\ Value.success = TRUE
          /\ Value.code = Some(0))
  /\ [][(~options.detached /\ promise.state = "pending"
           /\ promise'.state = "resolved") =>
          /\ promise'.value[1].stdout = stdout'
          /\ promise'.value[1].stderr = stderr']_vars

\* C5 witness: a non-detached call resolved with output in both buffers.
C5_Witness ==
  /\ ~options.detached /\ promise.state = "resolved"
  /\ Value.stdout # <<>> /\ Value.stderr # <<>>

\* C6: with captured output and exit code 0, the stdout of the resolved
\* result is the text of every byte the child wrote to its stdout.
C6_StdoutComplete ==
  (~options.detached /\ options.stdio = "pipe" /\ promise.state = "resolved")
    => Value.stdout = ToString(OutBytes(1, childProcess.out))

C8_SpawnErrorFails ==
  errorPc \in {"done", "threw"} =>
    /\ promise.state = "rejected"
    /\ Value.name = "spawn"
    /\ timeoutId # "armed" /\ timeoutId # "fired"

\* C9: a detached invocation is resolved once the executor has spawned, and
\* its result holds a process id that is a number and detached = true, and
\* no stdout, stderr or exit code.
C9_DetachedResult ==
  /\ (options.detached /\ pc = "registered") => promise.state = "resolved"
  /\ (options.detached /\ promise.state = "resolved") =>
       /\ promise.by = "detached"
       /\ Value.pid # None
       /\ Value.detached = TRUE
       /\ DOMAIN Value \cap {"stdout", "stderr", "code"} = {}

\* C10: the environment handed to the spawned child never holds the marker
\* variable, and holds every other variable of the caller-supplied
\* environment with its value.
C10_MarkerStripped ==
  childProcess.env # None =>
    /\ Marker \notin DOMAIN childProcess.env[1]
    /\ \A k \in (DOMAIN EffectiveEnv) \ {Marker} :
         /\ k \in DOMAIN childProcess.env[1]
         /\ childProcess.env[1][k] = EffectiveEnv[k]

\* C10 witness: a child spawned with a caller-supplied environment that
\* held the marker and another variable.
C10_Witness ==
  /\ childProcess.env # None
  /\ options.env # None
  /\ DOMAIN options.env[1] = EnvNames
  /\ DOMAIN childProcess.env[1] = {"PATH"}

\* The types of the lines of the session log file, in file order.
LogTypes == [i \in 1..Len(logLines) |-> logLines[i].entry.type]

\* C11: with persistence, an invocation that has terminated by exit, by
\* timeout or by spawn error has a session_end or an error entry in its
\* session log.
C11_EndRecorded ==
  (/\ options.saveLog
   /\ promise.state # "pending"
   /\ promise.by \in {"exit", "timer", "error"})
  => \E i \in 1..Len(logLines) : LogTypes[i] \in {"session_end", "error"}

\* C12: with persistence, a child is spawned only once session_start is in
\* the session log, and session_start is the first line of the log and
\* occurs only there: it precedes every chunk, error and end entry.
C12_StartFirst ==
  /\ (options.saveLog /\ childProcess.state # "none") => logLines # <<>>
  /\ logLines # <<>> =>
       /\ LogTypes[1] = "session_start"
       /\ \A i \in 2..Len(logLines) : LogTypes[i] # "session_start"

\* C12 witness: a log that holds session_start, a chunk and session_end.
C12_Witness ==
  /\ Len(logLines) >= 3
  /\ \E i \in 1..Len(logLines) : LogTypes[i] = "stdout"
  /\ \E i \in 1..Len(logLines) : LogTypes[i] = "session_end"

\* C13: a failed session-log write never ends the executor or a handler
\* before it has spawned and settled the call: with a non-empty command the
\* executor does not throw, and neither the exit nor the error handler
\* throws.
C13_WriteFailuresIsolated ==
  /\ command # "" => pc # "threw"
  /\ exitPc # "threw"
  /\ errorPc # "threw"

\* C14: two invocations with saveLog in flight on the host have distinct
\* session ids and distinct log files.
C14_DistinctSessions ==
  \A i, j \in 1..Len(loggers) :
    i # j => /\ loggers[i].sessionId # loggers[j].sessionId
             /\ loggers[i].logFile # None
                => loggers[i].logFile # loggers[j].logFile

\* C15: the lines of the session log are in the order of their writeLog
\* calls, which is the order in which the runner observed the events.
C15_LogOrder ==
  \A i, j \in 1..Len(logLines) : i < j => logLines[i].seq < logLines[j].seq

\* The last call of the reader was viewLog.
Viewed == answer # None /\ answer[1].op = "viewLog"
\* The last call of the reader was getRecentSessions with an explicit limit.
Listed ==
  answer # None /\ answer[1].op = "getRecentSessions" /\ answer[1].limit # None
\* The file of the session viewLog was asked for.
ViewedFile == CHOOSE f \in logRoot[1] : f.name = answer[1].sessionId
\* The number of whole leading lines of a file of n tokens.
WholeLines(n) == (n + 1) \div (Len(Stringify(<<>>)) + 1)
\* The file is the log of its session, whole or cut short.
IsCutLog(f) == f.content = SubSeq(FileContent(SessionLog(f.name)), 1,
                                  Len(f.content))

\* C16: for a session whose file is whole or cut short at any token, in a
\* log directory of no more sessions than viewLog lists, viewLog raises no
\* error and returns the whole leading lines of the log, in their order.
C16_RoundTrip ==
  (/\ Viewed
   /\ answer[1].sessionId \in StoredIds
   /\ Cardinality(StoredIds) <= ViewLimit
   /\ IsCutLog(ViewedFile))
  => /\ answer[1].result.ok
     /\ answer[1].result.logs =
          SubSeq(SessionLog(answer[1].sessionId), 1,
                 WholeLines(Len(ViewedFile.content)))

\* C17: getRecentSessions called with a limit returns at most limit
\* sessions, the more recent one first.
C17_AtMostLimit ==
  Listed =>
    /\ Len(answer[1].sessions) <= answer[1].limit[1]
    /\ \A i, j \in 1..Len(answer[1].sessions) :
         i < j => answer[1].sessions[i].sessionId[1]
                    >= answer[1].sessions[j].sessionId[1]

\* C18: viewLog returns the lines of every session whose whole log is
\* stored, however many sessions are stored, and fails with the not-found
\* error for an id that no stored file has.
C18_FoundIffStored ==
  Viewed =>
    /\ (answer[1].sessionId \in StoredIds
        /\ ViewedFile.content = FileContent(SessionLog(ViewedFile.name)))
       => /\ answer[1].result.ok
          /\ answer[1].result.logs = SessionLog(answer[1].sessionId)
    /\ answer[1].sessionId \notin StoredIds
       => /\ ~answer[1].result.ok
          /\ answer[1].result.error = SessionNotFound(answer[1].sessionId)

\* The caller called the wrapper fn.
Called(fn) == api # None /\ api[1].fn = fn

\* C19: runClaude hands runCommand the args '-p', the permission flag
\* unless dangerouslySkipPermissions is false, and the prompt; and with
\* fireAndForget true it hands it detached true and stdio 'ignore',
\* whatever the other options.
C19_RunClaudeCall ==
  Called("runClaude") =>
    /\ invocation.args =
         <<"-p">>
         \o (IF /\ "dangerouslySkipPermissions" \in DOMAIN api[1].options
                /\ api[1].options.dangerouslySkipPermissions = FALSE
             THEN <<>> ELSE <<"--dangerously-skip-permissions">>)
         \o <<api[1].prompt>>
    /\ ("fireAndForget" \in DOMAIN api[1].options
        /\ api[1].options.fireAndForget = TRUE)
       => options.detached /\ options.stdio = "ignore"

\* C20: whatever the options, runClaudeTask runs claude detached with
\* stdio 'ignore' in the project directory, and the call is resolved as
\* soon as the child is spawned.
C20_TaskFireAndForget ==
  Called("runClaudeTask") =>
    /\ options.detached
    /\ options.stdio = "ignore"
    /\ invocation.cwd = api[1].projectDir[1]
    /\ childProcess.state # "none"
       => promise.state = "resolved" /\ promise.by = "detached"

\* C21: a resolved call describes an execution that did not fail: its
\* child was spawned, and a call resolved by the exit event saw exit code 0
\* and no timeout.
C21_ResolvedMeansNoFailure ==
  promise.state = "resolved" =>
    /\ childProcess.state # "failed"
    /\ promise.by = "exit" => (ExitCode = Some(0) /\ ~timedOut)

\* C22: a call without saveLog whose command is the empty string spawns no
\* process and, once its executor has run, has failed.
C22_EmptyCommandRejected ==
  (command = "" /\ ~options.saveLog) =>
    /\ childProcess.state = "none"
    /\ pc # "idle" => promise.state = "rejected"

\* The variables the caller supplied in options.env.
CallerEnv == IF options.env = None THEN <<>> ELSE options.env[1]

\* C23: the environment of the child is process.env overridden by the
\* caller's variables, without the marker: a variable of process.env that
\* the caller did not supply reaches the child with its value.
C23_EnvMerged ==
  childProcess.env # None =>
    /\ DOMAIN childProcess.env[1] =
         (DOMAIN processEnv \cup DOMAIN CallerEnv) \ {Marker}
    /\ \A k \in DOMAIN childProcess.env[1] :
         childProcess.env[1][k] =
           IF k \in DOMAIN CallerEnv THEN CallerEnv[k] ELSE processEnv[k]


\* The raw chunks echoed to the console so far.
EchoedChunks ==
  {i \in 1..Len(console) : console[i].kind \in {"stdout", "stderr"}}

\* C24: with saveLog no chunk of the child's output is echoed to the
\* console, whatever logging and logToConsole are, given or defaulted.
C24_EchoExcludesPersistence ==
  options.saveLog => EchoedChunks = {}

\* The sequence part occurs in the sequence whole.
Contains(whole, part) ==
  \E k \in 0..(Len(whole) - Len(part)) :
    SubSeq(whole, k + 1, k + Len(part)) = part

\* The appendFile of the chunk entry at position i of logger.pending fails:
\* the write is over and the file is as it was.
ChunkWriteFails(i) ==
  /\ i \in 1..Len(logger.pending)
  /\ logger.pending[i].awaiter = "nobody"
  /\ logger' = [logger EXCEPT !.pending = Remove(@, i)]
  /\ logLines' = logLines

\* C25: when the append of a chunk entry fails, the failure is written to
\* console.error and nothing else changes: the chunk is in the buffer of its
\* stream, the buffers, the undelivered chunks, the child, the timer, the
\* handlers' positions and the promise are as they were.
C25_ChunkWriteFailureIsolated ==
  [][\A i \in 1..Len(logger.pending) :
       ChunkWriteFails(i) =>
         /\ console' =
              Append(console, ConsoleStatus("error", "Log write error:"))
         /\ Contains(IF logger.pending[i].entry.type = "stdout"
                     THEN stdout' ELSE stderr',
                     logger.pending[i].entry.data)
         /\ UNCHANGED <<stdout, stderr, pipes, childProcess, timedOut,
                        timeoutId, pc, errorPc, exitPc, promise>>]_vars

\* A chunk was echoed after a failed chunk write was reported, every byte
\* the child wrote is in the result, and the call resolved.
C25_Witness ==
  /\ \E i, j \in 1..Len(console) :
       /\ i < j
       /\ console[i] = ConsoleStatus("error", "Log write error:")
       /\ console[j].kind = "stdout"
  /\ promise.state = "resolved"
  /\ childProcess.out > 0
  /\ Value.stdout = ToString(OutBytes(1, childProcess.out))

\* The last call of the reader was getRecentSessions.
ListedAny == answer # None /\ answer[1].op = "getRecentSessions"
\* The limit of that call.
ListedLimit ==
  IF answer[1].limit = None THEN DefaultLimit ELSE answer[1].limit[1]

\* The first line of the file is empty, is no JSON text or is no
\* session_start entry.
IsCorrupt(f) ==
  LET first == ReadFirstLine(f.content)
  IN \/ first = <<>>
     \/ ~JSONParses(first)
     \/ JSONParse(first).entry.type # "session_start"

\* The files of the log directory whose first line is a session_start.
SoundFiles == {f \in logRoot[1] : ~IsCorrupt(f)}

\* C26: getRecentSessions returns what it would return if the files with an
\* empty, unparseable or non-session_start first line were not there: none
\* of them is listed, and when no more sound files are stored than limit
\* every one of them is listed.
C26_CorruptSkipped ==
  (ListedAny /\ logRoot # None) =>
    /\ answer[1].sessions = GetRecentSessions(Some(SoundFiles), ListedLimit)
    /\ \A i \in 1..Len(answer[1].sessions) :
         \E f \in SoundFiles :
           LogFile(f.date, f.name) = answer[1].sessions[i].logFile
    /\ Cardinality(SoundFiles) <= ListedLimit =>
         {answer[1].sessions[i].logFile : i \in 1..Len(answer[1].sessions)}
           = {LogFile(f.date, f.name) : f \in SoundFiles}

\* A session was listed although a more recent file of the directory is
\* corrupt.
C26_Witness ==
  /\ ListedAny
  /\ logRoot # None
  /\ \E f \in logRoot[1] :
       /\ IsCorrupt(f)
       /\ \E i \in 1..Len(answer[1].sessions) :
            f.name[1] > answer[1].sessions[i].sessionId[1]

\* The chunks the data handlers have observed.
ObservedChunks == childProcess.writes - Len(pipes.out) - Len(pipes.err)

\* The chunk entries in the session log file.
ChunkLines ==
  {i \in 1..Len(logLines) : LogTypes[i] \in {"stdout", "stderr"}}

\* The appends of chunk entries in flight.
ChunkWritesPending ==
  {i \in 1..Len(logger.pending) : logger.pending[i].awaiter = "nobody"}

\* The appends of chunk entries that failed and were reported.
ChunkWritesFailed ==
  {i \in 1..Len(console) :
     console[i] = ConsoleStatus("error", "Log write error:")}

\* The session log has none of its chunk entries.
C27_NoChunkEntries == ChunkLines = {} /\ ChunkWritesPending = {}

\* The session log has its boundary entries: session_start once a child was
\* spawned, and session_end or error once the call has settled.
C27_BoundaryEntries ==
  /\ childProcess.state # "none" =>
       \E i \in 1..Len(logLines) : LogTypes[i] = "session_start"
  /\ promise.state # "pending" =>
       \E i \in 1..Len(logLines) : LogTypes[i] \in {"session_end", "error"}

\* Every observed chunk has one append of its entry: in the file, in
\* flight, or failed.
C27_OneEntryPerChunk ==
  Cardinality(ChunkLines) + Cardinality(ChunkWritesPending)
    + Cardinality(ChunkWritesFailed) = ObservedChunks

\* C27: with saveLog and a logLevel other than 'full' the session log never
\* holds a stdout or stderr entry and still holds its boundary entries
\* (session_start, and session_end or error); with logLevel 'full' one chunk
\* entry is appended per observed chunk.
C27_LogLevel ==
  options.saveLog =>
    /\ logger.logLevel # "full" => C27_NoChunkEntries /\ C27_BoundaryEntries
    /\ logger.logLevel = "full" => C27_OneEntryPerChunk

\* The keys of the result object the call resolved with.
ResultKeys == IF promise.state = "resolved" THEN DOMAIN Value ELSE {}

\* C28: without saveLog the invocation creates no log directory, sets no log
\* file and issues no append, and its result has neither sessionId nor
\* logFile; a result has sessionId or logFile only with saveLog.
C28_NoPersistenceNoLog ==
  /\ ~options.saveLog =>
       /\ pc \notin {"mkdir", "writeStart"}
       /\ logger.logFile = None
       /\ logger.writes = 0
       /\ logger.pending = <<>>
       /\ logLines = <<>>
       /\ ResultKeys \cap {"sessionId", "logFile"} = {}
  /\ ResultKeys \cap {"sessionId", "logFile"} # {} =>
       /\ options.saveLog
       /\ {"sessionId", "logFile"} \subseteq ResultKeys

\* A call without saveLog resolved with the output of a child that wrote to
\* both streams.
C28_Witness ==
  /\ ~options.saveLog
  /\ promise.state = "resolved"
  /\ promise.by = "exit"
  /\ Value.stdout # <<>>
  /\ Value.stderr # <<>>

\* C29: the runner has ended the child's stdin if and only if a child was
\* spawned, the command is 'claude' and the child has a stdin stream; the
\* stdin of the child of any other command is never ended.
C29_StdinEndedForClaude ==
  /\ childProcess.stdinEnded <=>
       (/\ childProcess.state # "none"
        /\ command = "claude"
        /\ childProcess.stdin)
  /\ command # "claude" => ~childProcess.stdinEnded

\* A child of another command runs with its stdin open.
C29_Witness ==
  /\ command = "echo"
  /\ childProcess.state = "running"
  /\ childProcess.stdin
  /\ ~childProcess.stdinEnded

\* C30: an invocation spawns at most one child, whatever its outcome: there
\* is no child before the one spawn, one child after it, and the child of
\* an invocation that failed or timed out is the one spawned first.
C30_AtMostOneSpawn ==
  /\ childProcess.spawns <= 1
  /\ childProcess.spawns = 0 <=> childProcess.state = "none"
  /\ promise.state = "rejected" /\ promise.by \in {"exit", "timer", "error"}
       => childProcess.spawns = 1

\* The call timed out, its child was killed and no other child was spawned.
C30_Witness ==
  /\ promise.state = "rejected"
  /\ promise.by = "timer"
  /\ childProcess.state = "exited"
  /\ childProcess.spawns = 1

\* C31: once a detached invocation has resolved, no SIGTERM has been sent
\* to its child and no timer of the invocation is armed, with or without a
\* timeout.
C31_DetachedNeverKilled ==
  (options.detached /\ promise.state = "resolved") =>
    /\ ~childProcess.termSent
    /\ timeoutId # "armed"

\* C32: in the session log no stdout or stderr entry comes after the
\* session_end entry, in whatever order the data events and the exit event
\* reach the runner.
C32_EndIsLast ==
  \A i, j \in 1..Len(logLines) :
    (i < j /\ LogTypes[i] = "session_end")
      => LogTypes[j] \notin {"stdout", "stderr"}

\* C33: no step of a runCommand call changes the caller-supplied env object
\* or the environment of the host process: each keeps its variables, the
\* marker included, with their values.
C33_CallerEnvUntouched ==
  [][processEnv' = processEnv /\ options'.env = options.env]_vars

\* A child was spawned without the marker while the caller's env object and
\* the environment of the host both still hold it.
C33_Witness ==
  /\ childProcess.env # None
  /\ Marker \notin DOMAIN childProcess.env[1]
  /\ options.env # None
  /\ Marker \in DOMAIN options.env[1]
  /\ Marker \in DOMAIN processEnv

\* C34: without a log directory getRecentSessions does not throw and
\* returns no session, and viewLog fails with the not-found error of the
\* session id it was asked for, whichever id that is.
C34_MissingRoot ==
  logRoot = None =>
    /\ ListedAny => (~answer[1].threw /\ answer[1].sessions = <<>>)
    /\ Viewed =>
         /\ ~answer[1].result.ok
         /\ answer[1].result.error = SessionNotFound(answer[1].sessionId)

\* viewLog was asked, without a log directory, for the id of a session.
C34_Witness ==
  /\ logRoot = None
  /\ Viewed
  /\ answer[1].sessionId \in SessionIds
====
